---- MODULE Spec2Model ----
(***************************************************************************)
(* Bracket pricing engine of Bulkease-Customer (src/src/lib/pricing-utils.ts) *)
(* getCurrentPrice, getNextBracket and getMinPrice over a caller's array   *)
(* of PriceRange objects and a demand counter; the listing and detail      *)
(* pages that resolve a product's bracket list and counter; and the cart,  *)
(* order and payment routes that produce the counter.                      *)
(*                                                                         *)
(* A JavaScript value that may be a number or null/undefined is a sequence *)
(* of length at most one: << >> is null/undefined, <<n>> is the number n.  *)
(***************************************************************************)
EXTENDS Integers, Sequences, FiniteSets

VARIABLES
    ranges,   \* the caller's PriceRange[] array object (Array.sort works in place)
    last,     \* the last call made on it: [op], or [op, totalOrders, ret]
    fresh,    \* a copy of the array as the caller built it, kept by SpecFresh only
    product,          \* the product record the public product API returns
    selectedVariant,  \* ProductDetailClient's selectedVariant state: a variant id or ""
    view,             \* what the listing and the detail page have rendered of it
    catalog,  \* the entity on sale: its kind, booking amount and price ranges
    cart,     \* the cart items of each user, in the order they were created
    orders,   \* the order rows with their order items, by order id
    resp,     \* the last response of an API route: [op, status]
    requests  \* the POST /api/cart requests in flight: where each is, what it read

engineVars == <<ranges, last, fresh>>
pageVars == <<product, selectedVariant, view>>
shopVars == <<catalog, cart, orders, resp, requests>>
vars == <<ranges, last, fresh, product, selectedVariant, view, catalog, cart, orders,
          resp, requests>>

\* ---------------------------------------------------------------- bounds
MaxLen == 2      \* longest bracket list
MaxQty == 2      \* largest minQuantity / maxQuantity; demands go one beyond it
MaxPrice == 2    \* largest pricePerUnit

\* ---------------------------------------------------------------- values
null == << >>
Num(n) == <<n>>

\* totalOrders as the callers pass it: zero and negative included
Demands == -1..(MaxQty + 1)

\* A price range as the admin form submits it: minQuantity >= 1, maxQuantity a
\* positive number or null, pricePerUnit above 0
PriceRange ==
    [minQuantity : {Num(n) : n \in 1..MaxQty},
     maxQuantity : {null} \cup {Num(n) : n \in 1..MaxQty},
     pricePerUnit : {Num(n) : n \in 1..MaxPrice}]

\* interface PriceRange { minQuantity; maxQuantity?; pricePerUnit } with any
\* numbers in it: zero bounds, a negative maxQuantity, a negative price
AnyPriceRange ==
    [minQuantity : {Num(n) : n \in 0..MaxQty},
     maxQuantity : {null} \cup {Num(n) : n \in -1..MaxQty},
     pricePerUnit : {Num(n) : n \in -1..MaxPrice}]

\* no page is open and no shop is running: the specifications of the engine alone
NoPage ==
    /\ product = << >>
    /\ selectedVariant = ""
    /\ view = << >>
    /\ catalog = << >>
    /\ cart = << >>
    /\ orders = << >>
    /\ resp = << >>
    /\ requests = << >>

RangeLists == UNION {[1..n -> PriceRange] : n \in 0..MaxLen}
AnyRangeLists == UNION {[1..n -> AnyPriceRange] : n \in 0..MaxLen}

\* ---------------------------------------------------------------- helpers
\* JavaScript truthiness of a number-or-null value: null, undefined and 0 are falsy
Truthy(v) == v # null /\ v[1] # 0

\* a reading of a missing field as a number below every quantity and price
safeNumberMissingLeast(v) == IF v = null THEN -1 ELSE v[1]

\* const safeNumber = (value) => Number(value) || 0
safeNumber(v) == IF Truthy(v) THEN v[1] ELSE 0

\* value || 0
OrZero(v) == IF Truthy(v) THEN v ELSE Num(0)

\* Compare with its operands swapped: the sort comes out descending
CompareSwapped(a, b) == safeNumber(b.minQuantity) - safeNumber(a.minQuantity)

\* the comparator (a, b) => safeNumber(a.minQuantity) - safeNumber(b.minQuantity)
Compare(a, b) == safeNumber(a.minQuantity) - safeNumber(b.minQuantity)

\* an insertion that puts an element before the elements that compare equal to
\* it: a sort that is not stable
RECURSIVE InsertSortedUnstable(_, _)
InsertSortedUnstable(s, b) ==
    IF s = << >> THEN <<b>>
    ELSE IF Compare(b, s[Len(s)]) > 0 THEN Append(s, b)
    ELSE Append(InsertSortedUnstable(SubSeq(s, 1, Len(s) - 1), b), s[Len(s)])

\* Array.prototype.sort is stable: an element stays behind the elements that
\* compare equal to it and came before it
RECURSIVE InsertSorted(_, _)
InsertSorted(s, b) ==
    IF s = << >> THEN <<b>>
    ELSE IF Compare(b, s[Len(s)]) >= 0 THEN Append(s, b)
    ELSE Append(InsertSorted(SubSeq(s, 1, Len(s) - 1), b), s[Len(s)])

RECURSIVE SortFrom(_, _)
SortFrom(rs, n) ==
    IF n = 0 THEN << >> ELSE InsertSorted(SortFrom(rs, n - 1), rs[n])

\* the array left in the order it was supplied in
SortSkipped(rs) == rs

\* ranges.sort((a, b) => ...): the array after the call
Sort(rs) == SortFrom(rs, Len(rs))

\* range.maxQuantity ? safeNumber(range.maxQuantity) : null
MaxOf(range) ==
    IF Truthy(range.maxQuantity) THEN Num(safeNumber(range.maxQuantity)) ELSE null

\* the condition of the for loop's if
Matches(range, totalOrders) ==
    /\ totalOrders >= safeNumber(range.minQuantity)
    /\ (MaxOf(range) = null \/ totalOrders <= MaxOf(range)[1])

SetMin(S) == CHOOSE x \in S : \A y \in S : x <= y

\* ---------------------------------------------------------------- the engine
\* getCurrentPrice with the entry-tier test written totalOrders < 0
getCurrentPriceNegativeOnly(rs, totalOrders) ==
    IF Len(rs) = 0 THEN 0
    ELSE LET sortedRanges == Sort(rs)
             hits == {i \in 1..Len(sortedRanges) : Matches(sortedRanges[i], totalOrders)}
         IN  IF totalOrders < 0
                 THEN safeNumber(OrZero(sortedRanges[1].pricePerUnit))
             ELSE IF hits # {}
                 THEN safeNumber(sortedRanges[SetMin(hits)].pricePerUnit)
             ELSE safeNumber(OrZero(sortedRanges[Len(sortedRanges)].pricePerUnit))

\* getCurrentPrice returning 0 when the loop finds no bracket
getCurrentPriceZeroFallback(rs, totalOrders) ==
    IF Len(rs) = 0 THEN 0
    ELSE LET sortedRanges == Sort(rs)
             hits == {i \in 1..Len(sortedRanges) : Matches(sortedRanges[i], totalOrders)}
         IN  IF totalOrders < 1
                 THEN safeNumber(OrZero(sortedRanges[1].pricePerUnit))
             ELSE IF hits # {}
                 THEN safeNumber(sortedRanges[SetMin(hits)].pricePerUnit)
             ELSE 0

\* the return value of getCurrentPrice(ranges, totalOrders)
getCurrentPrice(rs, totalOrders) ==
    IF Len(rs) = 0 THEN 0
    ELSE LET sortedRanges == Sort(rs)
             hits == {i \in 1..Len(sortedRanges) : Matches(sortedRanges[i], totalOrders)}
         IN  IF totalOrders < 1
                 THEN safeNumber(OrZero(sortedRanges[1].pricePerUnit))
             ELSE IF hits # {}
                 THEN safeNumber(sortedRanges[SetMin(hits)].pricePerUnit)
             ELSE safeNumber(OrZero(sortedRanges[Len(sortedRanges)].pricePerUnit))

\* getNextBracket with >= for >: the bracket the demand just entered counts as next
getNextBracketInclusive(rs, totalOrders) ==
    IF Len(rs) = 0 THEN null
    ELSE LET sortedRanges == Sort(rs)
             hits == {i \in 1..Len(sortedRanges) :
                         safeNumber(sortedRanges[i].minQuantity) >= totalOrders}
         IN  IF hits # {} THEN <<sortedRanges[SetMin(hits)]>> ELSE null

\* the return value of getNextBracket(ranges, totalOrders): <<range>>, or null
getNextBracket(rs, totalOrders) ==
    IF Len(rs) = 0 THEN null
    ELSE LET sortedRanges == Sort(rs)
             hits == {i \in 1..Len(sortedRanges) :
                         safeNumber(sortedRanges[i].minQuantity) > totalOrders}
         IN  IF hits # {} THEN <<sortedRanges[SetMin(hits)]>> ELSE null

\* getMinPrice taking the top tier's price for the floor (prices assumed to fall)
getMinPriceTopTier(rs) ==
    IF Len(rs) = 0 THEN 0
    ELSE safeNumber(Sort(rs)[Len(rs)].pricePerUnit)

\* Math.min() of no arguments is Infinity: a number above every price
Infinity == MaxPrice + 1

\* getMinPrice without its guard for the empty list
getMinPriceUnguarded(rs) ==
    SetMin({safeNumber(rs[i].pricePerUnit) : i \in 1..Len(rs)} \cup {Infinity})

\* the return value of getMinPrice(ranges)
getMinPrice(rs) ==
    IF Len(rs) = 0 THEN 0
    ELSE SetMin({safeNumber(rs[i].pricePerUnit) : i \in 1..Len(rs)})

\* the caller's array after getCurrentPrice or getNextBracket ran on it
SortedInPlace(rs) == IF Len(rs) = 0 THEN rs ELSE Sort(rs)

\* ---------------------------------------------------------------- the calls
Init ==
    /\ ranges \in RangeLists
    /\ last = [op |-> "none"]
    /\ fresh = << >>
    /\ NoPage

CallGetCurrentPrice ==
    \E totalOrders \in Demands :
        /\ last' = [op |-> "getCurrentPrice", totalOrders |-> totalOrders,
                    ret |-> getCurrentPrice(ranges, totalOrders)]
        /\ ranges' = SortedInPlace(ranges)
        /\ UNCHANGED <<fresh, pageVars, shopVars>>

CallGetNextBracket ==
    \E totalOrders \in Demands :
        /\ last' = [op |-> "getNextBracket", totalOrders |-> totalOrders,
                    ret |-> getNextBracket(ranges, totalOrders)]
        /\ ranges' = SortedInPlace(ranges)
        /\ UNCHANGED <<fresh, pageVars, shopVars>>

CallGetMinPrice ==
    /\ last' = [op |-> "getMinPrice", ret |-> getMinPrice(ranges)]
    /\ UNCHANGED <<ranges, fresh, pageVars, shopVars>>

Next ==
    \/ CallGetCurrentPrice
    \/ CallGetNextBracket
    \/ CallGetMinPrice

\* the engine on the bracket lists the admin form admits
Spec == Init /\ [][Next]_vars

\* the engine on bracket lists of any numbers
InitAny ==
    /\ ranges \in AnyRangeLists
    /\ last = [op |-> "none"]
    /\ fresh = << >>
    /\ NoPage

SpecAny == InitAny /\ [][Next]_vars

\* the engine called again and again on one array, a copy of which is kept
\* aside; the brackets are open-ended or end at the largest quantity
FreshRangeLists ==
    {rs \in RangeLists :
        \A i \in 1..Len(rs) : rs[i].maxQuantity \in {null, Num(MaxQty)}}

InitFresh ==
    /\ ranges \in FreshRangeLists
    /\ last = [op |-> "none"]
    /\ fresh = ranges
    /\ NoPage

SpecFresh == InitFresh /\ [][Next]_vars

TypeOK ==
    /\ ranges \in AnyRangeLists
    /\ fresh \in AnyRangeLists
    /\ last.op \in {"none", "getCurrentPrice", "getNextBracket", "getMinPrice"}

\* ---------------------------------------------------------------- the claims
\* What the specification says of a bracket list, stated without the code's
\* sort and without its reading of maxQuantity.

Brackets(rs) == {rs[i] : i \in 1..Len(rs)}

\* demand lies in [minQuantity, maxQuantity], a null maxQuantity being unbounded
Contains(b, demand) ==
    /\ demand >= b.minQuantity[1]
    /\ (b.maxQuantity = null \/ demand <= b.maxQuantity[1])

Containing(rs, demand) == {b \in Brackets(rs) : Contains(b, demand)}

\* the brackets of S with the smallest, and with the largest, minQuantity
Lowest(S) == {b \in S : \A c \in S : b.minQuantity[1] <= c.minQuantity[1]}
Highest(S) == {b \in S : \A c \in S : b.minQuantity[1] >= c.minQuantity[1]}

Prices(S) == {b.pricePerUnit[1] : b \in S}

\* the schedule of the specification's examples: 1..9 at 10, 10..49 at 8, 50.. at 5
ExampleTiers ==
    << [minQuantity |-> Num(1), maxQuantity |-> Num(9), pricePerUnit |-> Num(10)],
       [minQuantity |-> Num(10), maxQuantity |-> Num(49), pricePerUnit |-> Num(8)],
       [minQuantity |-> Num(50), maxQuantity |-> null, pricePerUnit |-> Num(5)] >>

\* the schedule with a gap: 1..5 at 10, 20.. at 4
ExampleGap ==
    << [minQuantity |-> Num(1), maxQuantity |-> Num(5), pricePerUnit |-> Num(10)],
       [minQuantity |-> Num(20), maxQuantity |-> null, pricePerUnit |-> Num(4)] >>

\* The specification's examples, as the code computes them
ExampleTiersPrices ==
    /\ getCurrentPrice(ExampleTiers, 5) = 10
    /\ getCurrentPrice(ExampleTiers, 10) = 8
    /\ getCurrentPrice(ExampleTiers, 50) = 5
    /\ getCurrentPrice(ExampleTiers, 1000) = 5

ExampleGapPrice == getCurrentPrice(ExampleGap, 10) = 4

ExampleFloor == getMinPrice(ExampleTiers) = 5

ExampleNextBrackets ==
    /\ getNextBracket(ExampleTiers, 5) = <<ExampleTiers[2]>>
    /\ getNextBracket(ExampleTiers, 10) = <<ExampleTiers[3]>>
    /\ getNextBracket(ExampleTiers, 50) = null

ExampleEmpty ==
    \A d \in Demands :
        getCurrentPrice(<< >>, d) = 0 /\ getNextBracket(<< >>, d) = null

CalledGetCurrentPrice == last.op = "getCurrentPrice"
CalledGetNextBracket == last.op = "getNextBracket"
CalledGetMinPrice == last.op = "getMinPrice"

\* C1: for a demand >= 1 that some bracket contains, getCurrentPrice returns the
\* price of the containing bracket with the smallest minQuantity; a bracket whose
\* numeric maxQuantity (0 included) lies below the demand is not the one chosen.
C1_FirstContainingBracket ==
    /\ ExampleTiersPrices
    /\ (CalledGetCurrentPrice /\ last.totalOrders >= 1
            /\ Containing(ranges, last.totalOrders) # {})
        => last.ret \in Prices(Lowest(Containing(ranges, last.totalOrders)))

\* C1 holds of every list that has no bracket with maxQuantity 0
C1_ExceptZeroMax ==
    (CalledGetCurrentPrice /\ last.totalOrders >= 1
        /\ Containing(ranges, last.totalOrders) # {}
        /\ \A b \in Brackets(ranges) : b.maxQuantity # Num(0))
    => last.ret \in Prices(Lowest(Containing(ranges, last.totalOrders)))

\* C2: for a demand below 1 and a non-empty list, getCurrentPrice returns the
\* price of the bracket with the smallest minQuantity.
C2_EntryTierBelowOne ==
    (CalledGetCurrentPrice /\ last.totalOrders < 1 /\ Len(ranges) > 0)
    => last.ret \in Prices(Lowest(Brackets(ranges)))

C2_Witness ==
    /\ CalledGetCurrentPrice /\ last.totalOrders < 1 /\ Len(ranges) = 2
    /\ ranges[1].minQuantity[1] < ranges[2].minQuantity[1]
    /\ ranges[1].pricePerUnit # ranges[2].pricePerUnit
    /\ last.ret = ranges[1].pricePerUnit[1]

\* C3: for a demand >= 1 that no bracket contains, getCurrentPrice returns the
\* price of the bracket with the largest minQuantity; on the gap example, 4.
C3_GapFallsToLastBracket ==
    /\ ExampleGapPrice
    /\ (CalledGetCurrentPrice /\ last.totalOrders >= 1 /\ Len(ranges) > 0
            /\ Containing(ranges, last.totalOrders) = {})
        => last.ret \in Prices(Highest(Brackets(ranges)))

\* C3 holds of every list that has no bracket with maxQuantity 0
C3_ExceptZeroMax ==
    (CalledGetCurrentPrice /\ last.totalOrders >= 1 /\ Len(ranges) > 0
        /\ Containing(ranges, last.totalOrders) = {}
        /\ \A b \in Brackets(ranges) : b.maxQuantity # Num(0))
    => last.ret \in Prices(Highest(Brackets(ranges)))

\* C4: on a non-empty list getMinPrice returns the least pricePerUnit of the
\* list, whatever the order of the brackets and wherever the least price sits.
C4_FloorIsLeastPrice ==
    /\ ExampleFloor
    /\ (CalledGetMinPrice /\ Len(ranges) > 0)
        => /\ last.ret \in Prices(Brackets(ranges))
           /\ \A p \in Prices(Brackets(ranges)) : last.ret <= p

\* an unsorted list whose least price is not the top tier's
C4_Witness ==
    /\ CalledGetMinPrice /\ Len(ranges) = 2
    /\ ranges[1].minQuantity[1] > ranges[2].minQuantity[1]
    /\ ranges[1].pricePerUnit[1] > ranges[2].pricePerUnit[1]
    /\ last.ret = ranges[2].pricePerUnit[1]

\* the brackets whose minQuantity is strictly above the demand
Above(rs, demand) == {b \in Brackets(rs) : b.minQuantity[1] > demand}

\* C5: getNextBracket returns a bracket whose minQuantity is the smallest one
\* strictly above the demand, and null exactly when no minQuantity is above it.
C5_NextBracket ==
    /\ ExampleNextBrackets
    /\ CalledGetNextBracket
        => IF Above(ranges, last.totalOrders) = {}
               THEN last.ret = null
               ELSE /\ last.ret # null
                    /\ last.ret[1] \in Lowest(Above(ranges, last.totalOrders))

\* the demand equals the largest minQuantity of a two-bracket list: none is next
C5_Witness ==
    /\ CalledGetNextBracket /\ Len(ranges) = 2
    /\ ranges[1].minQuantity[1] < ranges[2].minQuantity[1]
    /\ last.totalOrders = ranges[2].minQuantity[1]
    /\ last.ret = null

\* C6: on the empty list getCurrentPrice returns 0, getNextBracket returns null
\* and getMinPrice returns 0, for every demand.
C6_EmptyList ==
    /\ ExampleEmpty
    /\ Len(ranges) = 0
        => /\ CalledGetCurrentPrice => last.ret = 0
           /\ CalledGetNextBracket => last.ret = null
           /\ CalledGetMinPrice => last.ret = 0

C6_Witness == Len(ranges) = 0 /\ CalledGetMinPrice /\ last.ret = 0

\* the bracket getCurrentPrice takes for a demand below 1 contains the demand 1
EntryTierContainsOne(rs) == \A b \in Lowest(Brackets(rs)) : Contains(b, 1)

\* C7 as stated: for every list and every demand <= 0, getCurrentPrice returns
\* what it returns for the demand 1.
C7_ZeroDemandAsOne ==
    (CalledGetCurrentPrice /\ last.totalOrders <= 0)
    => last.ret = getCurrentPrice(ranges, 1)

\* C7 amended: for every demand <= 0 and every list whose brackets of smallest
\* minQuantity contain the demand 1 (minQuantity <= 1, and maxQuantity absent
\* or >= 1), getCurrentPrice returns what it returns for the demand 1.
C7_ZeroDemandAsOneInEntryTier ==
    (CalledGetCurrentPrice /\ last.totalOrders <= 0
        /\ EntryTierContainsOne(ranges))
    => last.ret = getCurrentPrice(ranges, 1)

C7_Witness ==
    /\ CalledGetCurrentPrice /\ last.totalOrders <= 0 /\ Len(ranges) = 2
    /\ EntryTierContainsOne(ranges)
    /\ ranges[1].minQuantity[1] < ranges[2].minQuantity[1]
    /\ ranges[1].pricePerUnit # ranges[2].pricePerUnit
    /\ last.ret = ranges[1].pricePerUnit[1]

\* C8: no call changes the caller's bracket list: same elements, same order.
C8_InputsNotMutated == [][ranges' = ranges]_vars

\* C9: getCurrentPrice never returns a negative number.
C9_NeverNegative == CalledGetCurrentPrice => last.ret >= 0

\* A well-formed schedule: the minQuantity values are distinct and >= 1, every
\* bounded bracket runs from its minQuantity to just below the next bracket's,
\* and the one open-ended bracket is the top one.
WellFormed(rs) ==
    /\ Len(rs) > 0
    /\ \A i, j \in 1..Len(rs) : rs[i].minQuantity = rs[j].minQuantity => i = j
    /\ \A b \in Brackets(rs) :
           /\ b.minQuantity[1] >= 1
           /\ b.maxQuantity = null <=> b \in Highest(Brackets(rs))
           /\ b.maxQuantity # null =>
                  /\ b.maxQuantity[1] >= b.minQuantity[1]
                  /\ \A c \in Brackets(rs) \ {b} :
                         c.minQuantity[1] \notin b.minQuantity[1]..b.maxQuantity[1]
                  /\ \E c \in Brackets(rs) : c.minQuantity[1] = b.maxQuantity[1] + 1

ExampleTiersCovered ==
    /\ WellFormed(ExampleTiers)
    /\ \A d \in {1, 5, 9, 10, 49, 50, 1000} :
           getCurrentPrice(ExampleTiers, d) \in Prices(Brackets(ExampleTiers))

\* C10: on a well-formed list and for every demand >= 1, getCurrentPrice returns
\* the pricePerUnit of one of the brackets of the list.
C10_WellFormedCoverage ==
    /\ ExampleTiersCovered
    /\ (CalledGetCurrentPrice /\ last.totalOrders >= 1 /\ WellFormed(ranges))
        => last.ret \in Prices(Brackets(ranges))

\* a two-tier schedule asked for a demand in its open-ended top tier
C10_Witness ==
    /\ CalledGetCurrentPrice /\ last.totalOrders >= 1 /\ WellFormed(ranges)
    /\ Len(ranges) = 2
    /\ ranges[1].pricePerUnit # ranges[2].pricePerUnit
    /\ last.ret = ranges[2].pricePerUnit[1]

\* the arrays holding the elements of rs in some order
Permutations(rs) ==
    {[i \in 1..Len(rs) |-> rs[p[i]]] :
        p \in {q \in [1..Len(rs) -> 1..Len(rs)] :
                  \A i, j \in 1..Len(rs) : i # j => q[i] # q[j]}}

DistinctMinQuantity(rs) ==
    \A i, j \in 1..Len(rs) : i # j => rs[i].minQuantity # rs[j].minQuantity

\* C11: on a bracket list with pairwise distinct minQuantity, getCurrentPrice
\* and getNextBracket return for every demand the same result on every
\* permutation of the list: the result of the call just made is the result
\* on each reordering of the array it was made on.
C11_OrderIndependent ==
    DistinctMinQuantity(ranges) =>
        /\ CalledGetCurrentPrice =>
              \A p \in Permutations(ranges) :
                  getCurrentPrice(p, last.totalOrders) = last.ret
        /\ CalledGetNextBracket =>
              \A p \in Permutations(ranges) :
                  getNextBracket(p, last.totalOrders) = last.ret

\* getNextBracket has returned the nearer of two brackets above the demand,
\* which a reordering of the array puts behind the farther one
C11_Witness ==
    /\ CalledGetNextBracket
    /\ Len(ranges) = 2
    /\ DistinctMinQuantity(ranges)
    /\ ranges[1].pricePerUnit # ranges[2].pricePerUnit
    /\ last.totalOrders < ranges[1].minQuantity[1]
    /\ last.ret = <<ranges[1]>>

\* C12: the engine holds no state between calls: whatever calls were made
\* before on the same array, a call returns what it returns on a fresh copy
\* of the array as it was built.
C12_NoStateBetweenCalls ==
    /\ CalledGetCurrentPrice => last.ret = getCurrentPrice(fresh, last.totalOrders)
    /\ CalledGetNextBracket => last.ret = getNextBracket(fresh, last.totalOrders)
    /\ CalledGetMinPrice => last.ret = getMinPrice(fresh)

\* getMinPrice, which sorts nothing, was called on an array that an earlier
\* call had reordered
C12_Witness ==
    /\ CalledGetMinPrice
    /\ ranges # fresh
    /\ Len(ranges) = 2
    /\ ranges[1].pricePerUnit # ranges[2].pricePerUnit

\* ---------------------------------------------------------------- the pages
\* The product listing (app/products/page.tsx) and the product detail page
\* (ProductDetailClient.tsx) resolve the bracket list and the demand counter
\* of one product record and price it with getCurrentPrice.

MaxOrdered == 2     \* largest totalOrderedQuantity a record carries

VariantIds == <<"v1", "v2">>

OneTier == <<[minQuantity |-> Num(1), maxQuantity |-> null, pricePerUnit |-> Num(3)]>>

TwoTiers ==
    <<[minQuantity |-> Num(1), maxQuantity |-> Num(1), pricePerUnit |-> Num(2)],
      [minQuantity |-> Num(2), maxQuantity |-> null, pricePerUnit |-> Num(1)]>>

PageRangeLists == {<< >>, OneTier, TwoTiers}

\* interface Variant, its id being given by its place in product.variants
VariantData ==
    [priceRanges : PageRangeLists,
     totalOrderedQuantity : {Num(n) : n \in 0..MaxOrdered},
     isActive : BOOLEAN]

VariantLists ==
    {[i \in 1..Len(vs) |-> [id |-> VariantIds[i],
                            priceRanges |-> vs[i].priceRanges,
                            totalOrderedQuantity |-> vs[i].totalOrderedQuantity,
                            isActive |-> vs[i].isActive]] :
        vs \in UNION {[1..n -> VariantData] : n \in 0..Len(VariantIds)}}

\* interface Product as the API hands it out: a product with variants reports
\* totalOrderedQuantity 0, and the admin update writes product-level price
\* ranges only when it writes no variants
Products ==
    {pr \in [hasVariants : BOOLEAN,
             priceRanges : PageRangeLists,
             totalOrderedQuantity : {Num(n) : n \in 0..MaxOrdered},
             variants : VariantLists] :
        /\ pr.hasVariants => pr.totalOrderedQuantity = Num(0)
        /\ pr.priceRanges # << >> => pr.variants = << >>
        /\ ~pr.hasVariants => pr.variants = << >>}

\* variants.find((v) => v.isActive !== false): <<the first such variant>>, or null
FirstActive(variants) ==
    LET hits == {i \in 1..Len(variants) : variants[i].isActive # FALSE}
    IN  IF hits = {} THEN null ELSE <<variants[SetMin(hits)]>>

\* variants.find((v) => v.id === id)
VariantById(variants, id) ==
    LET hits == {i \in 1..Len(variants) : variants[i].id = id}
    IN  IF hits = {} THEN null ELSE <<variants[SetMin(hits)]>>

\* getProductPriceRanges(product, selectedVariant), selectedVariant being
\* <<variant>> or null (undefined)
getProductPriceRanges(p, sv) ==
    IF p.hasVariants /\ sv # null THEN sv[1].priceRanges ELSE p.priceRanges

\* getTotalOrders(product, selectedVariant)
getTotalOrders(p, sv) ==
    IF p.hasVariants /\ sv # null
        THEN safeNumber(sv[1].totalOrderedQuantity)
        ELSE safeNumber(p.totalOrderedQuantity)

\* what a page shows for the variant it resolved
Shown(p, sv, by) ==
    [selected |-> sv,
     by |-> by,
     priceRanges |-> getProductPriceRanges(p, sv),
     totalOrders |-> getTotalOrders(p, sv),
     currentPrice |-> getCurrentPrice(getProductPriceRanges(p, sv), getTotalOrders(p, sv))]

\* ProductsPage: product.hasVariants ? product.variants[0] : undefined
ListingVariant(p) ==
    IF p.hasVariants /\ Len(p.variants) > 0 THEN <<p.variants[1]>> ELSE null

\* fetchProduct: the first variant with isActive !== false, else variants[0]
DefaultVariant(p) ==
    IF FirstActive(p.variants) # null
        THEN FirstActive(p.variants)[1].id
        ELSE p.variants[1].id

\* getSelectedVariantData()
getSelectedVariantData(p, selected) ==
    IF ~p.hasVariants \/ selected = "" THEN null
    ELSE VariantById(p.variants, selected)

InitPages ==
    /\ ranges = << >>
    /\ last = [op |-> "none"]
    /\ fresh = << >>
    /\ product \in Products
    /\ selectedVariant = ""
    /\ view = [listing |-> null, detail |-> null]
    /\ catalog = << >>
    /\ cart = << >>
    /\ orders = << >>
    /\ resp = << >>
    /\ requests = << >>

\* the listing renders the card of the product
RenderListing ==
    /\ view' = [view EXCEPT !.listing = <<Shown(product, ListingVariant(product), "listing")>>]
    /\ UNCHANGED <<engineVars, shopVars, product, selectedVariant>>

\* the detail page loads the product, picks its default variant and renders
FetchProduct ==
    /\ selectedVariant' =
          IF product.hasVariants /\ Len(product.variants) > 0
              THEN DefaultVariant(product)
              ELSE selectedVariant
    /\ view' = [view EXCEPT !.detail =
                   <<Shown(product, getSelectedVariantData(product, selectedVariant'),
                           "fetchProduct")>>]
    /\ UNCHANGED <<engineVars, shopVars, product>>

\* the user picks one of the active variants in the detail page's Select
SelectVariant ==
    /\ view.detail # null
    /\ product.hasVariants
    /\ \E i \in 1..Len(product.variants) :
          /\ product.variants[i].isActive
          /\ selectedVariant' = product.variants[i].id
    /\ view' = [view EXCEPT !.detail =
                   <<Shown(product, getSelectedVariantData(product, selectedVariant'),
                           "user")>>]
    /\ UNCHANGED <<engineVars, shopVars, product>>

NextPages ==
    \/ RenderListing
    \/ FetchProduct
    \/ SelectVariant

SpecPages == InitPages /\ [][NextPages]_vars

\* the views rendered so far
Rendered == {v \in {view.listing, view.detail} : v # null}

\* C13: for a product with variants and no variant selected the bracket list
\* resolves to the empty list and the demand to 0, whatever the product
\* record carries; with a variant selected they are the variant's, and for a
\* product without variants the product's own.
C13_ResolvePolicy ==
    \A v \in Rendered :
        /\ (product.hasVariants /\ v[1].selected = null) =>
              (v[1].priceRanges = << >> /\ v[1].totalOrders = 0)
        /\ (product.hasVariants /\ v[1].selected # null) =>
              /\ v[1].priceRanges = v[1].selected[1].priceRanges
              /\ v[1].totalOrders = v[1].selected[1].totalOrderedQuantity[1]
        /\ ~product.hasVariants =>
              /\ v[1].priceRanges = product.priceRanges
              /\ v[1].totalOrders = product.totalOrderedQuantity[1]

\* C14: for a product with variants in its initial view state (the user has
\* selected nothing) the listing and the detail page resolve the same bracket
\* list and the same demand counter and show the same current price.
C14_ListingAndDetailAgree ==
    (/\ product.hasVariants
     /\ view.listing # null
     /\ view.detail # null
     /\ view.detail[1].by = "fetchProduct") =>
        /\ view.listing[1].priceRanges = view.detail[1].priceRanges
        /\ view.listing[1].totalOrders = view.detail[1].totalOrders
        /\ view.listing[1].currentPrice = view.detail[1].currentPrice

\* ---------------------------------------------------------------- the product card
\* ProductCard({product, qty}: {product: any; qty: any}) hands qty to the
\* engine as it comes: a number, or undefined (<< >>) when the prop is not passed.
Quantities == {null} \cup {Num(d) : d \in Demands}

\* getCurrentPrice(ranges, undefined): undefined < 1 is false and so is every
\* undefined >= minQuantity, so the loop matches nothing
getCurrentPriceOf(rs, qty) ==
    IF qty # null THEN getCurrentPrice(rs, qty[1])
    ELSE IF Len(rs) = 0 THEN 0
    ELSE safeNumber(OrZero(Sort(rs)[Len(rs)].pricePerUnit))

\* getNextBracket(ranges, undefined): no minQuantity > undefined
getNextBracketOf(rs, qty) ==
    IF qty # null THEN getNextBracket(rs, qty[1]) ELSE null

\* the card renders: the three calls on product.priceRanges
ProductCard ==
    \E qty \in Quantities :
        /\ last' = [op |-> "ProductCard", qty |-> qty,
                    priceNow |-> getCurrentPriceOf(ranges, qty),
                    next |-> getNextBracketOf(ranges, qty),
                    bestPrice |-> getMinPrice(SortedInPlace(ranges))]
        /\ ranges' = SortedInPlace(ranges)
        /\ UNCHANGED <<fresh, pageVars, shopVars>>

SpecCard == Init /\ [][ProductCard]_vars

\* C15: an absent demand is treated as zero demand: on a list that is not
\* empty getCurrentPrice returns for an undefined demand what it returns for
\* demand 0, the price of the bracket with the smallest minQuantity.
C15_AbsentDemandAsZero ==
    (last.op = "ProductCard" /\ last.qty = null /\ Len(ranges) > 0) =>
        /\ last.priceNow = getCurrentPrice(ranges, 0)
        /\ last.priceNow \in Prices(Lowest(Brackets(ranges)))

\* ---------------------------------------------------------------- malformed brackets
\* Brackets whose minQuantity or pricePerUnit is missing (null, undefined, or
\* a value Number() turns into NaN: all << >>) or 0.
LoosePriceRange ==
    [minQuantity : {null, Num(0), Num(1)},
     maxQuantity : {null, Num(1)},
     pricePerUnit : {null, Num(0), Num(MaxPrice)}]

LooseRangeLists == UNION {[1..n -> LoosePriceRange] : n \in 0..MaxLen}

InitLoose ==
    /\ ranges \in LooseRangeLists
    /\ last = [op |-> "none"]
    /\ fresh = ranges
    /\ NoPage

SpecLoose == InitLoose /\ [][Next]_vars

\* the bracket with 0 written into its missing minQuantity and pricePerUnit
Zeroed(b) ==
    [b EXCEPT !.minQuantity = IF @ = null THEN Num(0) ELSE @,
              !.pricePerUnit = IF @ = null THEN Num(0) ELSE @]

ZeroedList(rs) == [i \in 1..Len(rs) |-> Zeroed(rs[i])]

\* C16: a bracket whose pricePerUnit or minQuantity is missing is handled by
\* the three operations as if the field were 0: the call returns what it
\* returns on the list with 0 written into the missing fields (the same
\* price, the same next bracket), and the sort leaves the brackets where it
\* leaves them in that list.
C16_CoerceToZero ==
    /\ CalledGetCurrentPrice =>
          last.ret = getCurrentPrice(ZeroedList(fresh), last.totalOrders)
    /\ CalledGetNextBracket =>
          LET zeroed == getNextBracket(ZeroedList(fresh), last.totalOrders)
          IN  IF last.ret = null THEN zeroed = null
              ELSE zeroed = <<Zeroed(last.ret[1])>>
    /\ CalledGetMinPrice => last.ret = getMinPrice(ZeroedList(fresh))
    /\ (CalledGetCurrentPrice \/ CalledGetNextBracket) =>
          ZeroedList(ranges) = SortedInPlace(ZeroedList(fresh))

\* a bracket with no minQuantity was sorted in front of a bracket with
\* minQuantity 1 that came before it, and its missing price was returned as 0
C16_Witness ==
    /\ CalledGetCurrentPrice
    /\ Len(fresh) = 2
    /\ fresh[1].minQuantity = Num(1)
    /\ fresh[2].minQuantity = null
    /\ fresh[2].pricePerUnit = null
    /\ fresh[1].pricePerUnit = Num(MaxPrice)
    /\ ranges[1] = fresh[2]
    /\ last.totalOrders = 0
    /\ last.ret = 0

\* ---------------------------------------------------------------- the shop
\* The cart, order and payment routes around one entity on sale: a product
\* without variants ("p1") or a variant ("v1"). User u1 shops; u2 is another
\* signed-in customer. An id that may be null is <<id>> or << >>.

MaxQuantity == 2     \* largest quantity of a cart item

Users == {"u1", "u2"}
Shoppers == {"u1"}
OrderIds == <<"o1", "o2">>
OrderIdSet == {OrderIds[i] : i \in 1..Len(OrderIds)}

\* enum OrderStatus
Statuses == {"BOOKED", "DELIVERED", "CANCELLED", "REFUNDED"}

\* razorpayOrder.id and razorpay_payment_id
RazorpayOrderId == "order_1"
RazorpayPaymentId == "pay_1"

\* the booking amounts and price ranges the admin gives the entity
Offers ==
    {[bookingAmount |-> Num(1), priceRanges |-> TwoTiers],
     [bookingAmount |-> Num(2), priceRanges |-> OneTier]}

ProductIdOf(c) == IF c.kind = "product" THEN <<"p1">> ELSE null
VariantIdOf(c) == IF c.kind = "variant" THEN <<"v1">> ELSE null

RECURSIVE SumQuantity(_)
SumQuantity(items) ==
    IF items = << >> THEN 0
    ELSE items[1].quantity + SumQuantity(Tail(items))

RECURSIVE SumBooking(_)
SumBooking(items) ==
    IF items = << >> THEN 0
    ELSE items[1].bookingPrice * items[1].quantity + SumBooking(Tail(items))

\* the order items of all orders
RECURSIVE ItemsFrom(_)
ItemsFrom(n) ==
    IF n = 0 THEN << >>
    ELSE ItemsFrom(n - 1) \o
         (IF orders[OrderIds[n]] = null THEN << >> ELSE orders[OrderIds[n]][1].orderItems)

\* totalOrderedQuantity of the entity as getProductByIdPublic reports it:
\* orderItems.reduce((sum, item) => sum + item.quantity, 0) over the order
\* items of the product, or of the variant
totalOrderedQuantity ==
    SumQuantity(SelectSeq(ItemsFrom(Len(OrderIds)),
        LAMBDA item : IF catalog.kind = "variant"
                          THEN item.variantId = VariantIdOf(catalog)
                          ELSE item.productId = ProductIdOf(catalog)))

\* the booking amount read from the product only
BookingAmountOfProductOnly(item) ==
    IF item.productId # null THEN OrZero(catalog.bookingAmount)[1] ELSE 0

\* item.variant ? Number(item.variant.bookingAmount)
\*              : Number(item.product?.bookingAmount || 0)
BookingAmountOf(item) ==
    IF item.variantId # null THEN safeNumber(catalog.bookingAmount)
    ELSE IF item.productId # null THEN OrZero(catalog.bookingAmount)[1]
    ELSE 0

\* the payment update writing the items' booking price anew
PaymentUpdateRepricing(order) ==
    [order EXCEPT !.transactionId = RazorpayPaymentId,
                  !.status = "BOOKED",
                  !.orderItems = [i \in 1..Len(order.orderItems) |->
                                     [order.orderItems[i] EXCEPT
                                         !.bookingPrice = BookingAmountOf(order.orderItems[i])]]]

\* the payment update without the status
PaymentUpdateKeepingStatus(order) ==
    [order EXCEPT !.transactionId = RazorpayPaymentId]

\* prisma.order.update({data: {transactionId: razorpay_payment_id, status: "BOOKED"}})
PaymentUpdate(order) ==
    [order EXCEPT !.transactionId = RazorpayPaymentId, !.status = "BOOKED"]

\* the cancel test without the test of the current status
CancellableInAnyStatus(order, action) == action = "cancel"

\* action === "cancel" && order.status === "BOOKED"
Cancellable(order, action) == action = "cancel" /\ order.status = "BOOKED"

\* the ids of cart item rows
ItemIds == <<"i1", "i2", "i3">>
ItemIdSet == {ItemIds[i] : i \in 1..Len(ItemIds)}

\* the ids no cart item has
FreeItemIds ==
    {i \in 1..Len(ItemIds) :
        \A u \in Users : \A k \in 1..Len(cart[u]) : cart[u][k].id # ItemIds[i]}

\* the id the next created cart item gets
NextItemId == IF FreeItemIds = {} THEN "" ELSE ItemIds[SetMin(FreeItemIds)]

\* the quantity test that rejects a missing quantity and zero only
InvalidQuantityFalsyOnly(quantity) == ~Truthy(quantity)

\* !quantity || quantity < 1
InvalidQuantity(quantity) == ~Truthy(quantity) \/ quantity[1] < 1

\* a lookup that finds nothing
findExistingNever(items, productId, variantId) == null

\* existingItem of POST /api/cart: findFirst by (productId: null, variantId)
\* if (variantId), else by (productId, variantId: null); the row or null
findExisting(items, productId, variantId) ==
    LET found == {i \in 1..Len(items) :
                     IF variantId # null
                         THEN items[i].productId = null /\ items[i].variantId = variantId
                         ELSE items[i].productId = productId /\ items[i].variantId = null}
    IN  IF found = {} THEN null ELSE <<items[SetMin(found)]>>

\* if (existingItem) update its row to existingItem.quantity + quantity,
\* else create a row
writeCartItem(items, existingItem, id, productId, variantId, quantity) ==
    IF existingItem # null
        THEN [i \in 1..Len(items) |->
                 IF items[i].id = existingItem[1].id
                     THEN [items[i] EXCEPT !.quantity = existingItem[1].quantity + quantity[1]]
                     ELSE items[i]]
        ELSE Append(items,
                 [id |-> id,
                  productId |-> IF variantId # null THEN null ELSE productId,
                  variantId |-> IF productId # null THEN null ELSE variantId,
                  quantity |-> quantity[1]])

InitShop ==
    /\ ranges = << >>
    /\ last = [op |-> "none"]
    /\ fresh = << >>
    /\ product = << >>
    /\ selectedVariant = ""
    /\ view = << >>
    /\ catalog \in {[kind |-> k, bookingAmount |-> o.bookingAmount,
                     priceRanges |-> o.priceRanges] :
                       k \in {"product", "variant"}, o \in Offers}
    /\ cart = [u \in Users |-> << >>]
    /\ orders = [o \in OrderIdSet |-> null]
    /\ resp = [op |-> "none", status |-> 0]
    /\ requests = << >>

\* POST /api/cart, its lookup and its write in one step
AddToCart(u, productId, variantId, quantity) ==
    LET existingItem == findExisting(cart[u], productId, variantId)
    IN  /\ quantity # null =>
               /\ quantity[1] <= MaxQuantity
               /\ existingItem # null =>
                      existingItem[1].quantity + quantity[1] <= MaxQuantity
        /\ IF InvalidQuantity(quantity) \/ (productId = null /\ variantId = null)
               THEN /\ resp' = [op |-> "AddToCart", status |-> 400]
                    /\ UNCHANGED cart
           ELSE /\ existingItem = null => FreeItemIds # {}
                /\ cart' = [cart EXCEPT ![u] =
                               writeCartItem(@, existingItem, NextItemId,
                                             productId, variantId, quantity)]
                /\ resp' = [op |-> "AddToCart", status |-> 200]
        /\ UNCHANGED <<engineVars, pageVars, catalog, orders, requests>>

\* POST /api/payment/create-order
CreateOrder(u) ==
    LET free == {i \in 1..Len(OrderIds) : orders[OrderIds[i]] = null}
        orderItems ==
            [i \in 1..Len(cart[u]) |->
                [productId |-> cart[u][i].productId,
                 variantId |-> cart[u][i].variantId,
                 quantity |-> cart[u][i].quantity,
                 bookingPrice |-> BookingAmountOf(cart[u][i])]]
    IN  /\ IF Len(cart[u]) = 0
               THEN /\ resp' = [op |-> "CreateOrder", status |-> 400]
                    /\ UNCHANGED orders
           ELSE /\ free # {}
                /\ orders' = [orders EXCEPT ![OrderIds[SetMin(free)]] =
                                <<[userId |-> u,
                                   totalQuantity |-> SumQuantity(orderItems),
                                   bookingAmount |-> SumBooking(orderItems),
                                   transactionId |-> RazorpayOrderId,
                                   status |-> "BOOKED",
                                   orderItems |-> orderItems]>>]
                /\ resp' = [op |-> "CreateOrder", status |-> 200]
        /\ UNCHANGED <<engineVars, pageVars, catalog, cart, requests>>

\* POST /api/payment/verify for an order row that exists
VerifyPayment(u, orderId, signatureMatches) ==
    /\ orders[orderId] # null
    /\ IF ~signatureMatches
           THEN /\ resp' = [op |-> "VerifyPayment", status |-> 400]
                /\ UNCHANGED <<orders, cart>>
       ELSE /\ orders' = [orders EXCEPT ![orderId] = <<PaymentUpdate(@[1])>>]
            /\ cart' = [cart EXCEPT ![u] = << >>]
            /\ resp' = [op |-> "VerifyPayment", status |-> 200]
    /\ UNCHANGED <<engineVars, pageVars, catalog, requests>>

\* PUT /api/orders/[orderId]
UpdateOrder(u, orderId, action) ==
    /\ IF orders[orderId] = null \/ orders[orderId][1].userId # u
           THEN /\ resp' = [op |-> "UpdateOrder", status |-> 404]
                /\ UNCHANGED orders
       ELSE IF Cancellable(orders[orderId][1], action)
           THEN /\ orders' = [orders EXCEPT ![orderId][1].status = "CANCELLED"]
                /\ resp' = [op |-> "UpdateOrder", status |-> 200]
       ELSE /\ resp' = [op |-> "UpdateOrder", status |-> 400]
            /\ UNCHANGED orders
    /\ UNCHANGED <<engineVars, pageVars, catalog, cart, requests>>

\* PUT /api/sales/orders/[orderId] for an order row that exists
SalesUpdateStatus(role, orderId, status) ==
    /\ orders[orderId] # null
    /\ IF role # "sales" /\ role # "admin"
           THEN /\ resp' = [op |-> "SalesUpdateStatus", status |-> 403]
                /\ UNCHANGED orders
       ELSE IF status \notin Statuses
           THEN /\ resp' = [op |-> "SalesUpdateStatus", status |-> 400]
                /\ UNCHANGED orders
       ELSE /\ orders' = [orders EXCEPT ![orderId][1].status = status]
            /\ resp' = [op |-> "SalesUpdateStatus", status |-> 200]
    /\ UNCHANGED <<engineVars, pageVars, catalog, cart, requests>>

\* PUT /api/admin/products/[id] of the product without variants: the product
\* row is updated and its price ranges are replaced
AdminUpdateProduct(offer) ==
    /\ catalog.kind = "product"
    /\ catalog' = [catalog EXCEPT !.bookingAmount = offer.bookingAmount,
                                  !.priceRanges = offer.priceRanges]
    /\ resp' = [op |-> "AdminUpdateProduct", status |-> 200]
    /\ UNCHANGED <<engineVars, pageVars, cart, orders, requests>>

NextShop ==
    \/ \E u \in Shoppers, quantity \in 0..MaxQuantity :
          AddToCart(u, ProductIdOf(catalog), VariantIdOf(catalog), Num(quantity))
    \/ \E u \in Users : CreateOrder(u)
    \/ \E u \in Users, orderId \in OrderIdSet, signatureMatches \in BOOLEAN :
          VerifyPayment(u, orderId, signatureMatches)
    \/ \E u \in Users, orderId \in OrderIdSet, action \in {"cancel", "reorder"} :
          UpdateOrder(u, orderId, action)
    \/ \E role \in {"customer", "sales"}, orderId \in OrderIdSet,
          status \in Statuses \cup {"PENDING"} :
          SalesUpdateStatus(role, orderId, status)
    \/ \E offer \in Offers : AdminUpdateProduct(offer)

SpecShop == InitShop /\ [][NextShop]_vars

\* the order items of the orders whose payment has been verified
RECURSIVE PaidItemsFrom(_)
PaidItemsFrom(n) ==
    IF n = 0 THEN << >>
    ELSE PaidItemsFrom(n - 1) \o
         (IF orders[OrderIds[n]] # null
             /\ orders[OrderIds[n]][1].transactionId = RazorpayPaymentId
             THEN orders[OrderIds[n]][1].orderItems ELSE << >>)

\* the quantity of the entity in its completed purchases
CompletedQuantity ==
    SumQuantity(SelectSeq(PaidItemsFrom(Len(OrderIds)),
        LAMBDA item : IF catalog.kind = "variant"
                          THEN item.variantId = VariantIdOf(catalog)
                          ELSE item.productId = ProductIdOf(catalog)))

\* C17: the demand counter that prices the entity is 0 while the entity has
\* no purchases and otherwise is the total quantity of the entity's completed
\* purchases, after any sequence of cart, create-order, payment-verify,
\* cancel and status-update operations.
C17_CounterIsCompletedPurchases ==
    /\ (\A o \in OrderIdSet : orders[o] = null) => totalOrderedQuantity = 0
    /\ totalOrderedQuantity = CompletedQuantity

\* C18: the booking price recorded on each item of an order that is being
\* created is the entity's current price at that moment: getCurrentPrice of
\* its bracket list and its demand counter before the order.
C18_BookingPriceIsCurrentPrice ==
    [][\A o \in OrderIdSet :
          (orders[o] = null /\ orders'[o] # null) =>
              \A i \in 1..Len(orders'[o][1].orderItems) :
                  orders'[o][1].orderItems[i].bookingPrice =
                      getCurrentPrice(catalog.priceRanges, totalOrderedQuantity)]_vars

C20_CustomerCancel ==
    [][resp'.op = "UpdateOrder" =>
          \A u \in Users, orderId \in OrderIdSet, action \in {"cancel", "reorder"} :
              UpdateOrder(u, orderId, action) =>
                  IF /\ orders[orderId] # null
                     /\ orders[orderId][1].userId = u
                     /\ action = "cancel"
                     /\ orders[orderId][1].status = "BOOKED"
                      THEN orders' = [orders EXCEPT ![orderId][1].status = "CANCELLED"]
                      ELSE /\ orders' = orders
                           /\ (orders[orderId] # null /\ orders[orderId][1].userId = u)
                                  => resp'.status = 400]_vars

\* the only order there is has been delivered, and its owner's update of it
\* was answered with 400
C20_Witness ==
    /\ resp = [op |-> "UpdateOrder", status |-> 400]
    /\ orders["o1"] # null
    /\ orders["o1"][1].status = "DELIVERED"
    /\ orders["o2"] = null

\* C21: a payment verification whose signature differs from the expected
\* one is answered with 400 and changes neither the orders nor the carts;
\* one whose signature matches sets the order's transactionId to the payment
\* id and its status to BOOKED and deletes every item of the caller's cart.
C21_VerifyPayment ==
    [][resp'.op = "VerifyPayment" =>
          \A u \in Users, orderId \in OrderIdSet, signatureMatches \in BOOLEAN :
              VerifyPayment(u, orderId, signatureMatches) =>
                  IF signatureMatches
                      THEN /\ orders'[orderId][1].transactionId = RazorpayPaymentId
                           /\ orders'[orderId][1].status = "BOOKED"
                           /\ cart'[u] = << >>
                      ELSE /\ resp'.status = 400
                           /\ orders' = orders
                           /\ cart' = cart]_vars

\* the payment of the second order has been verified while the first order,
\* made from the same cart, still carries its Razorpay order id
C21_Witness ==
    /\ resp = [op |-> "VerifyPayment", status |-> 200]
    /\ orders["o1"] # null
    /\ orders["o1"][1].transactionId = RazorpayOrderId
    /\ orders["o2"] # null
    /\ orders["o2"][1].transactionId = RazorpayPaymentId
    /\ orders["o2"][1].status = "BOOKED"
    /\ cart["u1"] = << >>

\* ---------------------------------------------------------------- checkout
\* Order creation from the carts a user can have built: at most one item on
\* the entity on sale, and items that reference no entity (a request naming
\* both a product and a variant creates one), under any item ids.

CheckoutItems ==
    {[id |-> id, productId |-> e[1], variantId |-> e[2], quantity |-> q] :
        id \in ItemIdSet,
        e \in {<<ProductIdOf(c), VariantIdOf(c)>> :
                  c \in {[kind |-> "product"], [kind |-> "variant"]}} \cup {<<null, null>>},
        q \in 1..MaxQuantity}

CheckoutCarts ==
    {items \in UNION {[1..n -> CheckoutItems] : n \in 0..Len(ItemIds)} :
        /\ \A i, j \in 1..Len(items) : i # j => items[i].id # items[j].id
        /\ \A i, j \in 1..Len(items) :
              (i # j /\ items[i].productId = items[j].productId
                     /\ items[i].variantId = items[j].variantId)
                  => (items[i].productId = null /\ items[i].variantId = null)}

InitCheckout ==
    /\ ranges = << >>
    /\ last = [op |-> "none"]
    /\ fresh = << >>
    /\ product = << >>
    /\ selectedVariant = ""
    /\ view = << >>
    /\ catalog \in {[kind |-> k, bookingAmount |-> o.bookingAmount,
                     priceRanges |-> o.priceRanges] :
                       k \in {"product", "variant"}, o \in Offers}
    /\ \E items \in CheckoutCarts :
          /\ \A i \in 1..Len(items) :
                \/ items[i].productId = null /\ items[i].variantId = null
                \/ items[i].productId = ProductIdOf(catalog)
                   /\ items[i].variantId = VariantIdOf(catalog)
          /\ cart = [u \in Users |-> IF u \in Shoppers THEN items ELSE << >>]
    /\ orders = [o \in OrderIdSet |-> null]
    /\ resp = [op |-> "none", status |-> 0]
    /\ requests = << >>

NextCheckout == \E u \in Users : CreateOrder(u)

SpecCheckout == InitCheckout /\ [][NextCheckout]_vars

\* the per-unit booking amount of the variant, else of the product, a cart
\* item references
UnitBookingAmount(item) ==
    IF item.variantId # null \/ item.productId # null
        THEN catalog.bookingAmount[1]
        ELSE 0

RECURSIVE CartQuantity(_)
CartQuantity(items) ==
    IF items = << >> THEN 0
    ELSE items[1].quantity + CartQuantity(Tail(items))

RECURSIVE CartBookingAmount(_)
CartBookingAmount(items) ==
    IF items = << >> THEN 0
    ELSE UnitBookingAmount(items[1]) * items[1].quantity + CartBookingAmount(Tail(items))

\* C22: order creation with an empty cart is answered with 400 and creates
\* no order; otherwise it creates exactly one order whose totalQuantity is
\* the sum of the cart items' quantities, whose bookingAmount is the sum over
\* the cart items of per-unit booking amount times quantity, with one order
\* item per cart item carrying its productId, variantId and quantity, and
\* it leaves the cart as it was.
C22_CreateOrder ==
    [][resp'.op = "CreateOrder" =>
          \A u \in Users :
              CreateOrder(u) =>
                  /\ cart' = cart
                  /\ IF cart[u] = << >>
                         THEN resp'.status = 400 /\ orders' = orders
                         ELSE \E o \in OrderIdSet :
                                /\ orders[o] = null
                                /\ orders'[o] # null
                                /\ \A other \in OrderIdSet \ {o} : orders'[other] = orders[other]
                                /\ orders'[o][1].userId = u
                                /\ orders'[o][1].totalQuantity = CartQuantity(cart[u])
                                /\ orders'[o][1].bookingAmount = CartBookingAmount(cart[u])
                                /\ Len(orders'[o][1].orderItems) = Len(cart[u])
                                /\ \A i \in 1..Len(cart[u]) :
                                      /\ orders'[o][1].orderItems[i].productId = cart[u][i].productId
                                      /\ orders'[o][1].orderItems[i].variantId = cart[u][i].variantId
                                      /\ orders'[o][1].orderItems[i].quantity = cart[u][i].quantity]_vars

\* an order has been created from a cart of three items, one of them on a
\* variant, and the cart still holds the three
C22_Witness ==
    /\ resp = [op |-> "CreateOrder", status |-> 200]
    /\ orders["o1"] # null
    /\ orders["o2"] = null
    /\ Len(orders["o1"][1].orderItems) = Len(ItemIds)
    /\ \E i \in 1..Len(cart["u1"]) : cart["u1"][i].variantId # null
    /\ orders["o1"][1].totalQuantity > Len(ItemIds)
    /\ orders["o1"][1].bookingAmount > 0
    /\ Len(cart["u1"]) = Len(ItemIds)

\* ---------------------------------------------------------------- whose order
\* C23: the customer's order update and the payment verification change an
\* order only if it belongs to the caller: an order of another user is the
\* same after the request as before it.
C23_OwnOrdersOnly ==
    [][resp'.op \in {"UpdateOrder", "VerifyPayment"} =>
          \A u \in Users, orderId \in OrderIdSet :
              (\/ \E action \in {"cancel", "reorder"} : UpdateOrder(u, orderId, action)
               \/ \E signatureMatches \in BOOLEAN : VerifyPayment(u, orderId, signatureMatches))
                  => \A o \in OrderIdSet :
                        (orders[o] # null /\ orders[o][1].userId # u)
                            => orders'[o] = orders[o]]_vars

\* ---------------------------------------------------------------- customers only
\* The shop with the customer-facing routes alone: no sales or admin request
\* is made, so an order is CANCELLED only by its owner's cancel.
NextCustomer ==
    \/ \E u \in Shoppers, quantity \in 0..MaxQuantity :
          AddToCart(u, ProductIdOf(catalog), VariantIdOf(catalog), Num(quantity))
    \/ \E u \in Users : CreateOrder(u)
    \/ \E u \in Users, orderId \in OrderIdSet, signatureMatches \in BOOLEAN :
          VerifyPayment(u, orderId, signatureMatches)
    \/ \E u \in Users, orderId \in OrderIdSet, action \in {"cancel", "reorder"} :
          UpdateOrder(u, orderId, action)

SpecCustomer == InitShop /\ [][NextCustomer]_vars

\* C24: once its owner has cancelled an order, no customer-facing request
\* (cancel, cart request, order creation, payment verification) changes the
\* order's status again: it stays CANCELLED.
C24_CancelledStays ==
    [][\A o \in OrderIdSet :
          (orders[o] # null /\ orders[o][1].status = "CANCELLED")
              => (orders'[o] # null /\ orders'[o][1].status = "CANCELLED")]_vars

\* ---------------------------------------------------------------- the cart
\* The three cart routes under every request body: product p1 (without
\* variants) and variant v1 named alone, together or not at all, a quantity
\* that is missing, negative, zero or positive. User u1 fills a cart; both
\* users update and delete, so that u2's requests name items of u1's cart.

RequestProductIds == {null, <<"p1">>}
RequestVariantIds == {null, <<"v1">>}
RequestQuantities == {null} \cup {Num(q) : q \in -1..(MaxQuantity - 1)}
UpdateQuantities == {null} \cup {Num(q) : q \in -1..MaxQuantity}

InitCart ==
    /\ ranges = << >>
    /\ last = [op |-> "none"]
    /\ fresh = << >>
    /\ product = << >>
    /\ selectedVariant = ""
    /\ view = << >>
    /\ catalog = << >>
    /\ cart = [u \in Users |-> << >>]
    /\ orders = << >>
    /\ resp = [op |-> "none", status |-> 0]
    /\ requests = << >>

\* PUT /api/cart/[itemId]
UpdateCartItem(u, itemId, quantity) ==
    LET cartItem == {i \in 1..Len(cart[u]) : cart[u][i].id = itemId}
    IN  /\ IF InvalidQuantity(quantity)
               THEN /\ resp' = [op |-> "UpdateCartItem", status |-> 400]
                    /\ UNCHANGED cart
           ELSE IF cartItem = {}
               THEN /\ resp' = [op |-> "UpdateCartItem", status |-> 404]
                    /\ UNCHANGED cart
           ELSE /\ cart' = [cart EXCEPT ![u][SetMin(cartItem)].quantity = quantity[1]]
                /\ resp' = [op |-> "UpdateCartItem", status |-> 200]
        /\ UNCHANGED <<engineVars, pageVars, catalog, orders, requests>>

\* DELETE /api/cart/[itemId]
RemoveCartItem(u, itemId) ==
    LET cartItem == {i \in 1..Len(cart[u]) : cart[u][i].id = itemId}
    IN  /\ IF cartItem = {}
               THEN /\ resp' = [op |-> "RemoveCartItem", status |-> 404]
                    /\ UNCHANGED cart
           ELSE /\ cart' = [cart EXCEPT ![u] = SelectSeq(@, LAMBDA item : item.id # itemId)]
                /\ resp' = [op |-> "RemoveCartItem", status |-> 200]
        /\ UNCHANGED <<engineVars, pageVars, catalog, orders, requests>>

NextCart ==
    \/ \E u \in Shoppers, productId \in RequestProductIds, variantId \in RequestVariantIds,
          quantity \in RequestQuantities :
          AddToCart(u, productId, variantId, quantity)
    \/ \E u \in Users, itemId \in ItemIdSet, quantity \in UpdateQuantities :
          UpdateCartItem(u, itemId, quantity)
    \/ \E u \in Users, itemId \in ItemIdSet : RemoveCartItem(u, itemId)

SpecCart == InitCart /\ [][NextCart]_vars

\* the items of a cart that reference the product or variant with this id
ItemsOn(items, id) ==
    {i \in 1..Len(items) : items[i].productId = id \/ items[i].variantId = id}

\* the entity a request adds: its variant if it names one, else its product
RequestedEntity(productId, variantId) ==
    IF variantId # null THEN variantId ELSE productId

\* C25: after any sequence of cart requests made one after the other, a cart
\* holds at most one item per product and per variant, and an accepted add
\* of an entity that already has an item in the cart increases that item's
\* quantity by the requested quantity and creates no item.
C25_OneItemPerEntity ==
    [][/\ \A u \in Users, id \in (RequestProductIds \cup RequestVariantIds) \ {null} :
             Cardinality(ItemsOn(cart'[u], id)) <= 1
       /\ (resp'.op = "AddToCart" /\ resp'.status = 200) =>
             \A u \in Shoppers, productId \in RequestProductIds,
                variantId \in RequestVariantIds, quantity \in RequestQuantities :
                 (/\ ItemsOn(cart[u], RequestedEntity(productId, variantId)) # {}
                  /\ AddToCart(u, productId, variantId, quantity))
                     => /\ Len(cart'[u]) = Len(cart[u])
                        /\ \A i \in ItemsOn(cart[u], RequestedEntity(productId, variantId)) :
                              cart'[u][i] = [cart[u][i] EXCEPT !.quantity = @ + quantity[1]]]_vars

\* u1's only item, on the product, has the largest quantity, which no single
\* add asks for: the last add found the item and increased it
C25_Witness ==
    /\ resp = [op |-> "AddToCart", status |-> 200]
    /\ Len(cart["u1"]) = 1
    /\ cart["u1"][1].productId = <<"p1">>
    /\ cart["u1"][1].variantId = null
    /\ cart["u1"][1].quantity = MaxQuantity
    /\ cart["u2"] = << >>

\* C26: every cart item references exactly one priceable entity: exactly one
\* of its productId and variantId is non-null, whether the request that
\* created it named a product, a variant or both.
C26_ExactlyOneEntity ==
    \A u \in Users : \A i \in 1..Len(cart[u]) :
        (cart[u][i].productId = null) # (cart[u][i].variantId = null)

RequestIds == {"r1", "r2"}

InitRace ==
    /\ ranges = << >>
    /\ last = [op |-> "none"]
    /\ fresh = << >>
    /\ product = << >>
    /\ selectedVariant = ""
    /\ view = << >>
    /\ catalog = << >>
    /\ orders = << >>
    /\ resp = [op |-> "none", status |-> 0]
    /\ \E u \in Shoppers, kind \in {"product", "variant"}, hasItem \in BOOLEAN,
          quantity \in [RequestIds -> 1..MaxQuantity] :
          /\ cart = [v \in Users |->
                        IF v = u /\ hasItem
                            THEN <<[id |-> ItemIds[1],
                                    productId |-> ProductIdOf([kind |-> kind]),
                                    variantId |-> VariantIdOf([kind |-> kind]),
                                    quantity |-> 1]>>
                            ELSE << >>]
          /\ requests = [r \in RequestIds |->
                            [pc |-> "find",
                             userId |-> u,
                             productId |-> ProductIdOf([kind |-> kind]),
                             variantId |-> VariantIdOf([kind |-> kind]),
                             quantity |-> Num(quantity[r]),
                             existingItem |-> null,
                             prior |-> IF hasItem THEN 1 ELSE 0]]

\* await prisma.cartItem.findFirst(...)
FindExistingItem(r) ==
    /\ requests[r].pc = "find"
    /\ requests' = [requests EXCEPT
                       ![r].existingItem = findExisting(cart[requests[r].userId],
                                                        requests[r].productId,
                                                        requests[r].variantId),
                       ![r].pc = "write"]
    /\ UNCHANGED <<engineVars, pageVars, catalog, cart, orders, resp>>

\* the rows of a cart with the product and variant id a create would write
SameEntityRows(items, productId, variantId) ==
    {i \in 1..Len(items) :
        /\ items[i].productId = (IF variantId # null THEN null ELSE productId)
        /\ items[i].variantId = (IF productId # null THEN null ELSE variantId)}

\* await prisma.cartItem.update(...) or await prisma.cartItem.create(...).
\* The database schema is not part of the sources: a create of a second row
\* for the same cart and entity either succeeds or fails on a unique
\* constraint, and then the handler answers 500.
WriteFoundOrNew(r, rejected) ==
    LET u == requests[r].userId
        duplicate == /\ requests[r].existingItem = null
                     /\ SameEntityRows(cart[u], requests[r].productId,
                                        requests[r].variantId) # {}
    IN  /\ requests[r].pc = "write"
        /\ rejected => duplicate
        /\ requests[r].existingItem = null => FreeItemIds # {}
        /\ IF rejected
               THEN /\ resp' = [op |-> "AddToCart", status |-> 500]
                    /\ UNCHANGED cart
               ELSE /\ cart' = [cart EXCEPT ![u] =
                                   writeCartItem(@, requests[r].existingItem, NextItemId,
                                                 requests[r].productId,
                                                 requests[r].variantId,
                                                 requests[r].quantity)]
                    /\ resp' = [op |-> "AddToCart", status |-> 200]
        /\ requests' = [requests EXCEPT ![r].pc = "done"]
        /\ UNCHANGED <<engineVars, pageVars, catalog, orders>>

NextRace ==
    \/ \E r \in RequestIds : FindExistingItem(r)
    \/ \E r \in RequestIds, rejected \in BOOLEAN : WriteFoundOrNew(r, rejected)

SpecRace == InitRace /\ [][NextRace]_vars

RECURSIVE SumRequested(_)
SumRequested(rs) ==
    IF rs = {} THEN 0
    ELSE LET r == CHOOSE x \in rs : TRUE
         IN  requests[r].quantity[1] + SumRequested(rs \ {r})

\* C27: when two concurrent adds of the same user for the same entity have
\* both finished, however their lookups and writes interleaved, the cart
\* holds a single item for the entity, and its quantity is the quantity the
\* cart held before plus both requested quantities.
C27_ConcurrentAddsSum ==
    (\A r \in RequestIds : requests[r].pc = "done") =>
        \A r \in RequestIds :
            LET items == cart[requests[r].userId]
            IN  /\ Len(items) = 1
                /\ items[1].productId = requests[r].productId
                /\ items[1].variantId = requests[r].variantId
                /\ items[1].quantity = requests[r].prior + SumRequested(RequestIds)

====
